---- MODULE Spec2Model ----
(***************************************************************************)
(* Blackhole take-archival server: the recording session manager, the      *)
(* Recording thread, the take catalog and the HTTP handlers that drive     *)
(* them (src/blackhole/recording.py, server.py, database_utils.py).        *)
(*                                                                         *)
(* Processes.  The handlers are coroutines without a suspension point, so  *)
(* the event loop runs one of them at a time; the variable request holds   *)
(* the operation in progress and its position.  Every Recording is a       *)
(* thread of its own and interleaves with the handler statement by         *)
(* statement.  Catalog operations are single sqlite transactions.          *)
(*                                                                         *)
(* Spec is the manager, the recordings and the handlers, with               *)
(* RecordingSessionManager.start_recording and stop_recording also called   *)
(* directly on the event-loop thread: through the handlers alone neither   *)
(* is reached while the database works (see begin_recording_L105 and       *)
(* end_recording_L148).  HttpSpec is the handlers and the recordings alone, *)
(* with a database whose INSERT may fail.                                   *)
(***************************************************************************)
EXTENDS Integers, Sequences, FiniteSets, TLC

\* ------------------------------------------------------------------------
\* Bounds of the model
\* ------------------------------------------------------------------------

\* Recording objects constructed in one run.
MaxRecordings == 2

\* Sections of blackhole_config/device_config.ini (0 .. MaxDevices of them).
MaxDevices == 1

\* Python's None; an optional value is {} (None) or {v}.
None == {}

Some(v) == {v}

\* ------------------------------------------------------------------------
\* Inputs
\* ------------------------------------------------------------------------

\* (slate, take_number) pairs of start requests.
Keys == {<<"SlateA", 1>>, <<"SlateA", 2>>}

\* (slate, take_number) pairs of stop and update requests: the keys above and
\* one that differs from them in its slate.
RequestKeys == Keys \cup {<<"SlateB", 1>>}

\* Sections of device_config.ini, in the order of the file.
DeviceNames == <<"CamA", "CamB", "CamC">>

\* PORT of a section: CamA and CamB are given the same port.
DevicePort(device_name) == IF device_name = "CamC" THEN 40001 ELSE 40000

\* TRACKING_PROTOCOL of a section: there is no module mocap_capture.
DeviceProtocol(device_name) == IF device_name = "CamC" THEN "Mocap" ELSE "FreeD"

\* Query parameters of POST /recording/{slate}/{take_number}/start.
StartArgs ==
  { [frame_rate |-> 24, timecode_in |-> 1000, description |-> None, map_name |-> None] }

\* Query parameters of POST /recording/{slate}/{take_number}/stop.
StopArgs ==
  { [timecode_out |-> 1048, sequence_path |-> None, snapshot_path |-> None,
     description |-> None],
    [timecode_out |-> 990, sequence_path |-> Some("Seq"), snapshot_path |-> Some("Snap"),
     description |-> Some("retake")] }

NoArg == [none |-> TRUE]

\* ------------------------------------------------------------------------
\* models.py
\* ------------------------------------------------------------------------

\* Columns of blackhole_takes besides the primary key (slate, take_number).
Columns ==
  { "valid", "date", "frame_rate", "timecode_in_frames", "timecode_out_frames",
    "timecode_in_smpte", "timecode_out_smpte", "level_snapshot_location",
    "level_sequence_location", "map", "usd_archive_location", "description" }

\* Fields of TakeUpdate besides slate and take_number, by alias (no date).
TakeUpdateFields == Columns \ {"date"}

\* A TakeUpdate with every optional field at its default, None.
EmptyTakeUpdate == [c \in TakeUpdateFields |-> None]

\* Bodies of PUT /take/update.
PutBodies ==
  { [EmptyTakeUpdate EXCEPT !["valid"] = Some(TRUE)] }

\* Bodies of PUT /take/update that name an archive location.
PutBodiesArchive ==
  { [EmptyTakeUpdate EXCEPT !["usd_archive_location"] = Some(<<"elsewhere">>)] }

\* ------------------------------------------------------------------------
\* database_utils.py
\* ------------------------------------------------------------------------

\* Timecode(frame_rate, frames=n) rendered HH:MM:SS:FF (non-drop rates); the
\* library counts frames from 1, so frame n is frame number n - 1.
frames_to_smpte(frame_rate, frames_to_convert) ==
  LET f == frames_to_convert - 1
  IN  << (f \div (3600 * frame_rate)) % 24,
         (f \div (60 * frame_rate)) % 60,
         (f \div frame_rate) % 60,
         f % frame_rate >>

get_base_archive_path == "archive"

\* Recording.archive_path = Path(base, slate, str(take_number)).
archive_path(key) == <<get_base_archive_path, key[1], key[2]>>

\* The path of the master stage a take is archived under.
MasterStagePath(key) == <<archive_path(key), "master", "MasterSequence.usda">>

\* The path of the stage of one device of a take.
DeviceStagePath(key, device_name) ==
  <<archive_path(key), "cameras", device_name, device_name>>

\* A lookup that finds no take.
check_take_exists_never(cat, key) == FALSE

check_take_exists(cat, key) == key \in DOMAIN cat

\* The row INSERTed for a TakeCreation dumped with exclude_none: the columns
\* that are not given stay NULL, valid defaults to False.
TakeCreationRow(a) ==
  [c \in Columns |->
     CASE c = "valid" -> Some(FALSE)
       [] c = "date" -> Some("today")
       [] c = "frame_rate" -> Some(a.frame_rate)
       [] c = "timecode_in_frames" -> Some(a.timecode_in)
       [] c = "timecode_in_smpte" -> Some(frames_to_smpte(a.frame_rate, a.timecode_in))
       [] c = "description" -> a.description
       [] c = "map" -> a.map_name
       [] OTHER -> None]

\* UPDATE ... SET of every field of the TakeUpdate that is not None.
MergeRow(row, upd) ==
  [c \in Columns |->
     IF c \in DOMAIN upd /\ upd[c] # None THEN upd[c] ELSE row[c]]

\* The catalog after update_take's UPDATE has been committed: no statement is
\* run when the TakeUpdate names no field, no row changes when the key is absent.
CommitUpdate(cat, key, upd) ==
  IF (\A c \in DOMAIN upd : upd[c] = None) \/ key \notin DOMAIN cat
  THEN cat
  ELSE [cat EXCEPT ![key] = MergeRow(cat[key], upd)]

\* The catalog after insert_take's INSERT: a row needs its key to be new and
\* its date (NOT NULL), else sqlite raises IntegrityError and nothing is inserted.
CommitInsert(cat, key, row) ==
  IF key \in DOMAIN cat \/ row["date"] = None
  THEN cat
  ELSE [k \in DOMAIN cat \cup {key} |-> IF k = key THEN row ELSE cat[k]]

\* ------------------------------------------------------------------------
\* State
\* ------------------------------------------------------------------------

VARIABLES
  catalog,                \* blackhole_takes: (slate, take_number) -> row
  current_recording,      \* RecordingSessionManager._current_recording
  stop_recording_event,   \* RecordingSessionManager._stop_recording_event
  recordings,             \* the Recording threads: id -> thread state
  recordings_started,     \* how many Recording objects have been constructed
  device_config,          \* sections of device_config.ini
  usd_files,              \* stage files written to the archive
  request,                \* the operation the event loop is running
  capture_pc,             \* a FreeDCaptureThread: where its run() is
  packet,                 \* ... the datagram it received last
  tracking_data,          \* ... what parse_packet made of it
  captured_tracking_data, \* ... BaseCaptureThread.captured_tracking_data
  data_to_export,         \* ... BaseCaptureThread.data_to_export
  factory_pc,             \* create_capture_threads: where it is, how it ended
  assigned_ports,         \* ... its assigned_ports, in insertion order
  devices_to_capture,     \* ... its devices_to_capture
  listening_socket,       \* the capture thread's UDP socket
  capture_threads,        \* data_to_export of the threads start_capturing_data joins
  system_time,            \* datetime.now() as get_system_timecode_as_frames read it
  timecode,               \* ... the Timecode it built
  archive_pc,             \* an archive_captured_data given capture data: where it is
  device_capture_dict,    \* ... its argument: device name -> samples
  sub_usd_threads,        \* ... its UsdArchiver threads: device name -> thread state
  master_thread,          \* ... its USDMasterStageArchiver thread
  failing_writers,        \* ... the writers whose run() raises
  stages                  \* ... the stages saved: path -> contents

\* The state of the device_capture package.
captureVars ==
  << capture_pc, packet, tracking_data, captured_tracking_data, data_to_export,
     factory_pc, assigned_ports, devices_to_capture,
     listening_socket, capture_threads, system_time, timecode >>

\* The state of the manager, the recordings, the catalog and the handlers.
serverVars ==
  << catalog, current_recording, stop_recording_event, recordings, recordings_started,
     device_config, usd_files, request >>

\* The state of an archive of capture data.
archiveVars ==
  << archive_pc, device_capture_dict, sub_usd_threads, master_thread, failing_writers, stages >>

vars == << serverVars, captureVars, archiveVars >>


NoKey == <<"", 0>>

\* The event loop between two operations; the last one and how it ended are kept.
Idle(op, key, result) ==
  [op |-> op, key |-> key, arg |-> NoArg, pc |-> "idle", result |-> result]

At(op, key, arg, pc) ==
  [op |-> op, key |-> key, arg |-> arg, pc |-> pc, result |-> "pending"]

\* What the configuration file may hold: up to n consecutive sections.
ConfigsUpTo(n) ==
  { SubSeq(DeviceNames, w[1], w[2]) :
      w \in { v \in (1..Len(DeviceNames)) \X (0..Len(DeviceNames)) :
                v[2] >= v[1] - 1 /\ v[2] - v[1] + 1 <= n } }

DeviceConfigs == ConfigsUpTo(MaxDevices)

\* No capture thread has been constructed and the factory has not been called:
\* Recording.start_capturing_data builds no thread (see there) and nothing
\* calls CaptureThreadFactory.
NoCapture ==
  /\ capture_pc = "none"
  /\ packet = << >>
  /\ tracking_data = None
  /\ captured_tracking_data = << >>
  /\ data_to_export = None
  /\ factory_pc = "none"
  /\ assigned_ports = << >>
  /\ devices_to_capture = << >>
  /\ listening_socket = "none"
  /\ capture_threads = << >>
  /\ system_time = None
  /\ timecode = None

\* No capture data has been handed to archive_captured_data: the mapping
\* start_capturing_data returns is empty (see there).
NoArchive ==
  /\ archive_pc = "none"
  /\ device_capture_dict = << >>
  /\ sub_usd_threads = << >>
  /\ master_thread = "unstarted"
  /\ failing_writers = {}
  /\ stages = << >>

Init ==
  /\ catalog = << >>
  /\ current_recording = None
  /\ stop_recording_event = FALSE
  /\ recordings = << >>
  /\ recordings_started = 0
  /\ device_config \in DeviceConfigs
  /\ usd_files = {}
  /\ request = Idle("none", NoKey, "none")
  /\ NoCapture
  /\ NoArchive

\* ------------------------------------------------------------------------
\* recording.py: RecordingSessionManager
\* ------------------------------------------------------------------------

\* A status test that never finds a recording.
is_recording_never(cur) == FALSE

\* get_recording_status, line 156: the test of _current_recording.
is_recording(cur) == cur # None

TheOne(opt) == CHOOSE v \in opt : TRUE

\* get_recording_status, lines 159-160: the three reads of _current_recording
\* that follow the test; a Recording thread may have emptied the slot since.
StatusFields(cur) ==
  IF cur = None
  THEN [raised |-> TRUE, key |-> NoKey, frame_rate |-> 0]
  ELSE LET r == recordings[TheOne(cur)]
       IN  [raised |-> FALSE, key |-> r.key, frame_rate |-> r.frame_rate]

\* Recording.__init__ (lines 30-41) and Thread.start(): the new thread is at
\* the first statement of run().
NewRecording(key, frame_rate) ==
  [key |-> key, frame_rate |-> frame_rate, pc |-> "L44",
   master_archive_thread |-> "unstarted", take_update |-> None]

\* The identity of the next Recording object.
NewId == recordings_started + 1

\* The takes recorded through direct calls of start_recording are numbered as
\* on a set: the n-th Recording is take n of the slate.
DirectKey(n) == <<"SlateA", n>>

Started(recs, i, r) == [j \in DOMAIN recs \cup {i} |-> IF j = i THEN r ELSE recs[j]]

\* A thread whose run() has ended: the Recording lives on only while the
\* manager's slot refers to it.
Ended(recs, i, cur, how) ==
  IF cur = Some(i)
  THEN [recs EXCEPT ![i].pc = how, ![i].take_update = None]
  ELSE [j \in DOMAIN recs \ {i} |-> recs[j]]

\* start_recording, line 167: the status test; lines 172-174 when not recording.
start_recording_L167(key, a) ==
  /\ request.pc = "idle"
  /\ key = DirectKey(NewId)
  /\ is_recording(current_recording) \/ recordings_started < MaxRecordings
  /\ IF is_recording(current_recording)
     THEN /\ request' = At("start_recording", NoKey, NoArg, "L167_fields")
          /\ UNCHANGED <<current_recording, recordings, recordings_started>>
     ELSE /\ recordings' = Started(recordings, NewId, NewRecording(key, a.frame_rate))
          /\ recordings_started' = NewId
          /\ current_recording' = Some(NewId)
          /\ request' = Idle("start_recording", key, "started")
  /\ UNCHANGED <<catalog, stop_recording_event, device_config, usd_files>>
  /\ UNCHANGED captureVars
  /\ UNCHANGED archiveVars

\* start_recording, lines 167-170: the status tuple is built, then return.
start_recording_L170 ==
  /\ request.op = "start_recording" /\ request.pc = "L167_fields"
  /\ request' = Idle("start_recording", request.key,
                     IF StatusFields(current_recording).raised
                     THEN "AttributeError" ELSE "ignored")
  /\ UNCHANGED <<catalog, current_recording, stop_recording_event, recordings,
                 recordings_started, device_config, usd_files>>
  /\ UNCHANGED captureVars
  /\ UNCHANGED archiveVars

\* stop_recording, line 177: the status test.
stop_recording_L177 ==
  /\ request.pc = "idle"
  /\ request' = IF is_recording(current_recording)
                THEN At("stop_recording", NoKey, NoArg, "L177_fields")
                ELSE Idle("stop_recording", NoKey, "ignored")
  /\ UNCHANGED <<catalog, current_recording, stop_recording_event, recordings,
                 recordings_started, device_config, usd_files>>
  /\ UNCHANGED captureVars
  /\ UNCHANGED archiveVars

\* stop_recording, lines 177-179: the status tuple is built.
stop_recording_L179 ==
  /\ request.op = "stop_recording" /\ request.pc = "L177_fields"
  /\ request' = IF StatusFields(current_recording).raised
                THEN Idle("stop_recording", NoKey, "AttributeError")
                ELSE At("stop_recording", NoKey, NoArg, "L180")
  /\ UNCHANGED <<catalog, current_recording, stop_recording_event, recordings,
                 recordings_started, device_config, usd_files>>
  /\ UNCHANGED captureVars
  /\ UNCHANGED archiveVars

\* An event whose set() flips the flag.
EventToggle(flag) == ~flag

\* threading.Event.set(): the flag is true afterwards, whatever it was.
EventSet(flag) == TRUE

\* threading.Event.clear().
EventClear(flag) == FALSE

\* stop_recording, line 180: Event.set().
stop_recording_L180 ==
  /\ request.op = "stop_recording" /\ request.pc = "L180"
  /\ stop_recording_event' = EventSet(stop_recording_event)
  /\ request' = Idle("stop_recording", NoKey, "set")
  /\ UNCHANGED <<catalog, current_recording, recordings, recordings_started, device_config, usd_files>>
  /\ UNCHANGED captureVars
  /\ UNCHANGED archiveVars


\* Recording thread i exists and is at the given statement.
Running(i, pc) == i \in DOMAIN recordings /\ recordings[i].pc = pc

\* reset_recording_state, line 163: Event.clear().
reset_recording_state_L163(i) ==
  /\ Running(i, "L163")
  /\ stop_recording_event' = EventClear(stop_recording_event)
  /\ recordings' = [recordings EXCEPT ![i].pc = "L164"]
  /\ UNCHANGED <<catalog, current_recording, recordings_started, device_config, usd_files, request>>
  /\ UNCHANGED captureVars
  /\ UNCHANGED archiveVars

\* Recording.run, line 50: where the thread goes on after the callback.
AfterCallback == "L104"

\* reset_recording_state, line 164: _current_recording = None.
reset_recording_state_L164(i) ==
  /\ Running(i, "L164")
  /\ current_recording' = None
  /\ recordings' = [recordings EXCEPT ![i].pc = AfterCallback]
  /\ UNCHANGED <<catalog, stop_recording_event, recordings_started, device_config, usd_files, request>>
  /\ UNCHANGED captureVars
  /\ UNCHANGED archiveVars

\* ------------------------------------------------------------------------
\* recording.py: Recording
\* ------------------------------------------------------------------------

\* A run() that goes from the capture straight to the archive.
AfterCapture_NoCallback == "L104"

\* Recording.run, line 47: where the thread goes on when start_capturing_data
\* has returned: the callback, reset_recording_state.
AfterCapture == "L163"

\* start_capturing_data, lines 57-100.  The loop over the configured devices
\* raises NameError at line 65 in its first iteration (thread_devices is not
\* defined anywhere), which ends the thread: run() catches nothing.  With no
\* section configured the loop body is not entered, no capture thread is
\* built, started or joined, and the empty mapping is returned at once.
start_capturing_data(i) ==
  /\ Running(i, "L44")
  /\ recordings' = IF Len(device_config) > 0
                   THEN Ended(recordings, i, current_recording, "NameError")
                   ELSE [recordings EXCEPT ![i].pc = AfterCapture]
  /\ UNCHANGED <<catalog, current_recording, stop_recording_event, recordings_started, device_config,
                 usd_files, request>>
  /\ UNCHANGED captureVars
  /\ UNCHANGED archiveVars

\* archive_captured_data, lines 104-137 and 139-141: the take is read; without a
\* row nothing is archived.  With a row, the mapping of capture data is empty
\* (see start_capturing_data), so no UsdArchiver is built, started or joined at
\* lines 107-128, and lines 131-137 build the master archiver with no path to
\* append and start it.
archive_captured_data_L104(i) ==
  /\ Running(i, "L104")
  /\ recordings' =
       IF check_take_exists(catalog, recordings[i].key)
       THEN [recordings EXCEPT ![i].pc = "L138",
                               ![i].master_archive_thread = "running"]
       ELSE [recordings EXCEPT ![i].pc = "L144"]
  /\ UNCHANGED <<catalog, current_recording, stop_recording_event, recordings_started,
                 device_config, usd_files, request>>
  /\ UNCHANGED captureVars
  /\ UNCHANGED archiveVars

\* usd_export.py, USDMasterStageArchiver.run, lines 101-111: the master stage is
\* created with one sub-layer path per file to append and saved; the thread
\* ends, and the join of archive_captured_data line 138 returns.  When the USD
\* library raises (raises: the path cannot be created or written), the
\* exception ends the writer's thread only: nothing is saved, and the join
\* returns all the same.
USDMasterStageArchiver_run(i, raises) ==
  /\ Running(i, "L138")
  /\ recordings[i].master_archive_thread = "running"
  /\ usd_files' = IF raises THEN usd_files
                  ELSE usd_files \cup
                         { [path |-> <<archive_path(recordings[i].key), "master",
                                      "MasterSequence.usda">>,
                            subLayerPaths |-> << >>] }
  /\ recordings' = [recordings EXCEPT
                      ![i].pc = "L144",
                      ![i].master_archive_thread = IF raises THEN "raised" ELSE "finished"]
  /\ UNCHANGED <<catalog, current_recording, stop_recording_event, recordings_started,
                 device_config, request>>
  /\ UNCHANGED captureVars
  /\ UNCHANGED archiveVars

\* The TakeUpdate built at lines 145-146 from the take that was read: every
\* field of the row that is not None (the date is no field of TakeUpdate), with
\* usd_export_location set to the archive path.
ArchiveTakeUpdate(row, key) ==
  [c \in TakeUpdateFields |->
     IF c = "usd_archive_location" THEN Some(archive_path(key)) ELSE row[c]]

\* update_database_with_archive_path, lines 144-146: the take is read; on None
\* line 145 raises AttributeError.
update_database_L144(i) ==
  /\ Running(i, "L144")
  /\ LET key == recordings[i].key
     IN  recordings' =
           IF check_take_exists(catalog, key)
           THEN [recordings EXCEPT
                   ![i].pc = "L147",
                   ![i].take_update = Some(ArchiveTakeUpdate(catalog[key], key))]
           ELSE Ended(recordings, i, current_recording, "AttributeError")
  /\ UNCHANGED <<catalog, current_recording, stop_recording_event, recordings_started, device_config,
                 usd_files, request>>
  /\ UNCHANGED captureVars
  /\ UNCHANGED archiveVars

\* An update_database_with_archive_path that also invokes the callback when it
\* is done.
update_database_L147_and_reset(i) ==
  /\ Running(i, "L147")
  /\ catalog' = CommitUpdate(catalog, recordings[i].key,
                             CHOOSE u \in recordings[i].take_update : TRUE)
  /\ recordings' = Ended(recordings, i, current_recording, "AttributeError")
  /\ stop_recording_event' = FALSE
  /\ current_recording' = None
  /\ UNCHANGED <<recordings_started, device_config, usd_files, request>>
  /\ UNCHANGED captureVars
  /\ UNCHANGED archiveVars

\* update_database_with_archive_path, line 147: utils.update_take commits the
\* UPDATE (database_utils.py:295-296); update_master_spreadsheet then raises
\* AttributeError at database_utils.py:126 (SpreadsheetWriter has no
\* add_or_update_take, sheets.py:86 names it addOrUpdateTake), which update_take
\* does not catch: the thread ends there and run() line 55 is not reached.
update_database_L147(i) ==
  /\ Running(i, "L147")
  /\ catalog' = CommitUpdate(catalog, recordings[i].key,
                             CHOOSE u \in recordings[i].take_update : TRUE)
  /\ recordings' = Ended(recordings, i, current_recording, "AttributeError")
  /\ UNCHANGED <<current_recording, stop_recording_event, recordings_started, device_config, usd_files,
                 request>>
  /\ UNCHANGED captureVars
  /\ UNCHANGED archiveVars


\* ------------------------------------------------------------------------
\* server.py
\* ------------------------------------------------------------------------

\* begin_recording, line 96: the status test of get_recording_status.
begin_recording_L96(key, a) ==
  /\ request.pc = "idle"
  /\ request' = At("begin_recording", key, a,
                   IF is_recording(current_recording) THEN "L96_fields" ELSE "L105")
  /\ UNCHANGED <<catalog, current_recording, stop_recording_event, recordings,
                 recordings_started, device_config, usd_files>>
  /\ UNCHANGED captureVars
  /\ UNCHANGED archiveVars

\* A begin_recording whose conflict branch does not return.
begin_recording_L99_no_return ==
  /\ request.op = "begin_recording" /\ request.pc = "L96_fields"
  /\ request' = At("begin_recording", request.key, request.arg, "L105")
  /\ UNCHANGED <<catalog, current_recording, stop_recording_event, recordings,
                 recordings_started, device_config, usd_files>>
  /\ UNCHANGED captureVars
  /\ UNCHANGED archiveVars

\* begin_recording, lines 96-102: the status tuple is built and the handler
\* returns (it does not raise) an HTTPException with status_code 400.
begin_recording_L99 ==
  /\ request.op = "begin_recording" /\ request.pc = "L96_fields"
  /\ request' = Idle("begin_recording", request.key,
                     IF StatusFields(current_recording).raised
                     THEN "AttributeError" ELSE "HTTPException_400")
  /\ UNCHANGED <<catalog, current_recording, stop_recording_event, recordings,
                 recordings_started, device_config, usd_files>>
  /\ UNCHANGED captureVars
  /\ UNCHANGED archiveVars

\* begin_recording, lines 105-124.  An existing take is answered with the
\* HTTPException of line 106.  Otherwise insert_take runs.  When sqlite raises
\* OperationalError at the INSERT or its commit (operational_error: the
\* database is locked, the disk is full, the table is missing), insert_take
\* logs it and returns None (database_utils.py:335-337), and the handler goes
\* on to line 126.  When the INSERT is committed (database_utils.py:329-330),
\* update_master_spreadsheet raises AttributeError at database_utils.py:126,
\* which insert_take does not catch: the handler ends at line 124.
begin_recording_L105(operational_error) ==
  /\ request.op = "begin_recording" /\ request.pc = "L105"
  /\ operational_error => recordings_started < MaxRecordings
  /\ IF check_take_exists(catalog, request.key)
     THEN /\ request' = Idle("begin_recording", request.key, "HTTPException_400")
          /\ UNCHANGED catalog
     ELSE IF operational_error
     THEN /\ request' = At("begin_recording", request.key, request.arg, "L126")
          /\ UNCHANGED catalog
     ELSE /\ catalog' = CommitInsert(catalog, request.key, TakeCreationRow(request.arg))
          /\ request' = Idle("begin_recording", request.key, "AttributeError")
  /\ UNCHANGED <<current_recording, stop_recording_event, recordings, recordings_started, device_config,
                 usd_files>>
  /\ UNCHANGED captureVars
  /\ UNCHANGED archiveVars

\* begin_recording, lines 126-128: recording_manager.start_recording (the slot
\* was empty at line 96 and only the event loop fills it, so the test of
\* recording.py:167 finds it empty), then the answer {"status": "started"}.
begin_recording_L126 ==
  /\ request.op = "begin_recording" /\ request.pc = "L126"
  /\ IF is_recording(current_recording)
     THEN UNCHANGED <<current_recording, recordings, recordings_started>>
     ELSE /\ recordings' = Started(recordings, NewId,
                                   NewRecording(request.key, request.arg.frame_rate))
          /\ recordings_started' = NewId
          /\ current_recording' = Some(NewId)
  /\ request' = Idle("begin_recording", request.key, "started")
  /\ UNCHANGED <<catalog, stop_recording_event, device_config, usd_files>>
  /\ UNCHANGED captureVars
  /\ UNCHANGED archiveVars

\* end_recording, line 138: the status test; lines 140-141 when not recording.
end_recording_L138(key) ==
  /\ request.pc = "idle"
  /\ request' = IF is_recording(current_recording)
                THEN At("end_recording", key, NoArg, "L138_fields")
                ELSE Idle("end_recording", key, "HTTPException_400")
  /\ UNCHANGED <<catalog, current_recording, stop_recording_event, recordings,
                 recordings_started, device_config, usd_files>>
  /\ UNCHANGED captureVars
  /\ UNCHANGED archiveVars

\* A comparison that takes every request for the recording in the slot.
StopMatches_any(key, status) == TRUE

\* end_recording, line 142: the request names the recording in the slot.
StopMatches(key, status) == key = status.key

\* end_recording, lines 138-146: the status tuple is built and compared with
\* the request; a names the query parameters of the request, which are first
\* used at line 148.
end_recording_L142(a) ==
  /\ request.op = "end_recording" /\ request.pc = "L138_fields"
  /\ LET status == StatusFields(current_recording)
     IN  request' =
           IF status.raised
           THEN Idle("end_recording", request.key, "AttributeError")
           ELSE IF StopMatches(request.key, status)
           THEN At("end_recording", request.key,
                   a @@ [frame_rate |-> status.frame_rate], "L148")
           ELSE Idle("end_recording", request.key, "HTTPException_400")
  /\ UNCHANGED <<catalog, current_recording, stop_recording_event, recordings,
                 recordings_started, device_config, usd_files>>
  /\ UNCHANGED captureVars
  /\ UNCHANGED archiveVars

\* The TakeUpdate of end_recording, lines 148-157.
StopTakeUpdate(a) ==
  [EmptyTakeUpdate EXCEPT
     !["timecode_out_frames"] = Some(a.timecode_out),
     !["timecode_out_smpte"] = Some(frames_to_smpte(a.frame_rate, a.timecode_out)),
     !["valid"] = Some(TRUE),
     !["level_sequence_location"] = a.sequence_path,
     !["level_snapshot_location"] = a.snapshot_path,
     !["description"] = a.description]

\* end_recording, lines 148-159: update_take commits the UPDATE
\* (database_utils.py:295-296) and update_master_spreadsheet raises
\* AttributeError at database_utils.py:126, which update_take does not catch
\* (line 301): the handler ends at line 159, and line 160, the call of
\* recording_manager.stop_recording, is not reached.
end_recording_L148 ==
  /\ request.op = "end_recording" /\ request.pc = "L148"
  /\ catalog' = CommitUpdate(catalog, request.key, StopTakeUpdate(request.arg))
  /\ request' = Idle("end_recording", request.key, "AttributeError")
  /\ UNCHANGED <<current_recording, stop_recording_event, recordings, recordings_started, device_config,
                 usd_files>>
  /\ UNCHANGED captureVars
  /\ UNCHANGED archiveVars

\* RecordingSessionManager.get_recording_status, lines 155-160, as the tuple
\* it returns.
get_recording_status(cur) ==
  IF cur = None
  THEN <<FALSE, None, None, None>>
  ELSE LET r == recordings[TheOne(cur)]
       IN  <<TRUE, Some(r.key[1]), Some(r.key[2]), Some(r.frame_rate)>>

\* get_recording_status (GET /recording), lines 80-85: the tuple of the manager
\* is unpacked into three names, which raises ValueError unless it has three
\* values; then the answer is built from the first three.
get_recording_status_L80 ==
  /\ request.pc = "idle"
  /\ LET status == get_recording_status(current_recording)
     IN  request' =
           IF Len(status) # 3
           THEN Idle("get_recording_status", NoKey, "ValueError")
           ELSE IF status[1]
           THEN Idle("get_recording_status",
                     <<TheOne(status[2]), TheOne(status[3])>>, "started")
           ELSE Idle("get_recording_status", NoKey, "stopped")
  /\ UNCHANGED <<catalog, current_recording, stop_recording_event, recordings,
                 recordings_started, device_config, usd_files>>
  /\ UNCHANGED captureVars
  /\ UNCHANGED archiveVars

\* update_take (PUT /take/update), lines 68-71.  For a key that is absent
\* insert_take is given the TakeUpdate, which has no date: the INSERT fails
\* with IntegrityError, insert_take returns None (database_utils.py:339-341)
\* and the response, declared a Take, is refused.  For a key that is present
\* update_take commits the UPDATE and update_master_spreadsheet raises.
update_take(key, body) ==
  /\ request.pc = "idle"
  /\ IF ~check_take_exists(catalog, key)
     THEN /\ catalog' = CommitInsert(catalog, key,
                                     [c \in Columns |-> IF c \in DOMAIN body
                                                        THEN body[c] ELSE None])
          /\ request' = Idle("update_take", key, "ResponseValidationError")
     ELSE /\ catalog' = CommitUpdate(catalog, key, body)
          /\ request' = Idle("update_take", key, "AttributeError")
  /\ UNCHANGED <<current_recording, stop_recording_event, recordings, recordings_started, device_config,
                 usd_files>>
  /\ UNCHANGED captureVars
  /\ UNCHANGED archiveVars

\* ------------------------------------------------------------------------
\* device_capture/freed_capture.py
\* ------------------------------------------------------------------------

\* struct.calcsize(PACKET_FORMAT).
FREED_PACKET_SIZE == 29

\* The message type of a transform packet, b"\xd1".
FREED_HEADER == 209

\* Bytes the datagrams are made of.
ByteSamples == {0, 1, 106, 110, 111, 255}

\* A datagram of FREED_PACKET_SIZE bytes: message type, camera id 1, one byte
\* of pan, zeros, and the checksum byte.
Frame(header, pan, checksum) ==
  <<header, 1, pan>> \o [i \in 1..(FREED_PACKET_SIZE - 4) |-> 0] \o <<checksum>>

\* What the socket may deliver: whole frames with and without the transform
\* header, and one datagram that is shorter than a frame.
Datagrams ==
  { Frame(header, pan, checksum) :
      header \in {FREED_HEADER, 208}, pan \in ByteSamples, checksum \in ByteSamples }
  \cup { <<FREED_HEADER, 1>> }

\* A mask of two bits.
Mask2(x) == x % 4

\* x & 0xFF on a Python int, negative ones included.
Mask8(x) == x % 256

RECURSIVE checksum_loop(_, _)
\* checksum_valid, lines 91-92: the loop over the bytes of the packet.
checksum_loop(sum_remaining, bytes) ==
  IF bytes = << >>
  THEN sum_remaining
  ELSE checksum_loop(Mask8(sum_remaining - Head(bytes)), Tail(bytes))

\* FreeDPacket.checksum_valid, lines 89-94.
checksum_valid(packetBytes) == checksum_loop(64, packetBytes) = 0

\* FreeDPacket.__init__, lines 25-30: a packet of another length returns before
\* packetBytes (or any other attribute) is set.
FreeDPacket(packet_data) ==
  [packetBytes |-> IF Len(packet_data) # FREED_PACKET_SIZE THEN None ELSE Some(packet_data)]

\* FreeDCaptureThread.parse_packet, lines 145-152.
parse_packet(packet_bytes) ==
  IF Len(packet_bytes) >= 1 /\ packet_bytes[1] = FREED_HEADER
  THEN Some(FreeDPacket(packet_bytes))
  ELSE None

\* A validation that passes everything.
validate_parsed_data_any(parsed_packet) == "True"

\* FreeDCaptureThread.validate_parsed_data, lines 154-158: what it returns, or
\* the exception checksum_valid raises when the packet has no packetBytes.
validate_parsed_data(parsed_packet) ==
  IF parsed_packet = None
  THEN "False"
  ELSE LET packetBytes == TheOne(parsed_packet).packetBytes
       IN  IF packetBytes = None THEN "AttributeError"
           ELSE IF checksum_valid(TheOne(packetBytes)) THEN "True" ELSE "False"

\* ------------------------------------------------------------------------
\* device_capture/base_capture.py: BaseCaptureThread.run of a FreeDCaptureThread
\* ------------------------------------------------------------------------

\* Event.set() by the owner of the stop event the thread was given.
Event_set ==
  /\ capture_pc # "none"
  /\ ~stop_recording_event
  /\ stop_recording_event' = EventSet(stop_recording_event)
  /\ UNCHANGED <<catalog, current_recording, recordings, recordings_started, device_config,
                 usd_files, request>>
  /\ UNCHANGED captureVars
  /\ UNCHANGED archiveVars

\* run, line 210: the loop test.
capture_run_L210 ==
  /\ capture_pc = "L210"
  /\ capture_pc' = IF stop_recording_event THEN "L225" ELSE "L211"
  /\ UNCHANGED <<packet, tracking_data, captured_tracking_data, data_to_export,
                 factory_pc, assigned_ports, devices_to_capture,
                 listening_socket, capture_threads, system_time, timecode>>
  /\ UNCHANGED serverVars
  /\ UNCHANGED archiveVars

\* run, lines 211-213: select returns the socket, or nothing after a second.
capture_run_L211(ready) ==
  /\ capture_pc = "L211"
  /\ capture_pc' = IF ready THEN "L214" ELSE "L210"
  /\ UNCHANGED <<packet, tracking_data, captured_tracking_data, data_to_export,
                 factory_pc, assigned_ports, devices_to_capture,
                 listening_socket, capture_threads, system_time, timecode>>
  /\ UNCHANGED serverVars
  /\ UNCHANGED archiveVars

\* run, line 214: sock.recv(self.packet_size).
capture_run_L214(datagram) ==
  /\ capture_pc = "L214"
  /\ packet' = datagram
  /\ capture_pc' = "L216"
  /\ UNCHANGED <<tracking_data, captured_tracking_data, data_to_export,
                 factory_pc, assigned_ports, devices_to_capture,
                 listening_socket, capture_threads, system_time, timecode>>
  /\ UNCHANGED serverVars
  /\ UNCHANGED archiveVars

\* run, line 214 (and line 211): the socket call raises OSError, which the
\* handler of line 221, outside the loop, catches: the loop is left.
capture_run_L214_OSError ==
  /\ capture_pc = "L214"
  /\ capture_pc' = "L225"
  /\ UNCHANGED <<packet, tracking_data, captured_tracking_data, data_to_export,
                 factory_pc, assigned_ports, devices_to_capture,
                 listening_socket, capture_threads, system_time, timecode>>
  /\ UNCHANGED serverVars
  /\ UNCHANGED archiveVars

\* run, line 216: parse_packet.
capture_run_L216 ==
  /\ capture_pc = "L216"
  /\ tracking_data' = parse_packet(packet)
  /\ capture_pc' = "L218"
  /\ UNCHANGED <<packet, captured_tracking_data, data_to_export,
                 factory_pc, assigned_ports, devices_to_capture,
                 listening_socket, capture_threads, system_time, timecode>>
  /\ UNCHANGED serverVars
  /\ UNCHANGED archiveVars

\* run, line 218: validate_parsed_data; an exception leaves the loop for the
\* handler of line 221 and the finally of line 224.
capture_run_L218 ==
  /\ capture_pc = "L218"
  /\ capture_pc' = CASE validate_parsed_data(tracking_data) = "True" -> "L219"
                     [] validate_parsed_data(tracking_data) = "False" -> "L210"
                     [] OTHER -> "L225"
  /\ UNCHANGED <<packet, tracking_data, captured_tracking_data, data_to_export,
                 factory_pc, assigned_ports, devices_to_capture,
                 listening_socket, capture_threads, system_time, timecode>>
  /\ UNCHANGED serverVars
  /\ UNCHANGED archiveVars

\* run, line 219: FreeDCaptureThread.cache_parsed_data (freed_capture.py:160-162)
\* calls append on captured_tracking_data, which BaseCaptureThread.__init__
\* made a dict (base_capture.py:147): AttributeError, caught at line 221,
\* and the loop is left with nothing cached.
capture_run_L219 ==
  /\ capture_pc = "L219"
  /\ capture_pc' = "L225"
  /\ UNCHANGED <<packet, tracking_data, captured_tracking_data, data_to_export,
                 factory_pc, assigned_ports, devices_to_capture,
                 listening_socket, capture_threads, system_time, timecode>>
  /\ UNCHANGED serverVars
  /\ UNCHANGED archiveVars

\* run, lines 224-226: data_to_export = dict(captured_tracking_data), then
\* cleanup (lines 201-206): shutdown(SHUT_RDWR), close().  The socket is a
\* datagram socket that was bound and never connected; where shutdown of such
\* a socket raises OSError (ENOTCONN, as on Linux), the exception leaves
\* cleanup and run() before close() is called.
capture_run_L225(shutdown_raises) ==
  /\ capture_pc = "L225"
  /\ data_to_export' = Some(captured_tracking_data)
  /\ IF shutdown_raises
     THEN /\ capture_pc' = "OSError"
          /\ UNCHANGED listening_socket
     ELSE /\ capture_pc' = "ended"
          /\ listening_socket' = "closed"
  /\ UNCHANGED <<packet, tracking_data, captured_tracking_data,
                 factory_pc, assigned_ports, devices_to_capture,
                 capture_threads, system_time, timecode>>
  /\ UNCHANGED serverVars
  /\ UNCHANGED archiveVars

\* ------------------------------------------------------------------------
\* device_capture/capture_factory.py
\* ------------------------------------------------------------------------

\* Configurations given to the factory have up to this many sections.
MaxFactoryDevices == 2

\* Lines 50-51: the class {protocol}CaptureThread of the module
\* {protocol.lower()}_capture; the package has freed_capture only, for any
\* other protocol import_module raises ModuleNotFoundError.
capture_thread_class(protocol) ==
  IF protocol = "FreeD" THEN Some("FreeDCaptureThread") ELSE None

\* The abstract methods a class has not implemented.  BaseCaptureThread
\* declares packet_size, protocol, parse_packet and validate_parsed_data
\* abstract (base_capture.py:159-190); FreeDCaptureThread implements all but
\* protocol (freed_capture.py:97-162).
AbstractMethods(class) ==
  IF class = "FreeDCaptureThread" THEN {"protocol"} ELSE {}

\* Line 36: port in assigned_ports.
PortAssigned(port, assigned) == \E n \in 1..Len(assigned) : assigned[n].port = port

\* create_capture_threads, lines 26-68: one turn of the loop over the
\* configuration, or the return when it is exhausted.  The device is noted
\* (line 34).  On a port that is assigned, line 40 calls issubclass on the
\* thread object, which raises TypeError.  On a free port the module is
\* imported (ModuleNotFoundError when there is none) and, the class being no
\* MultiDeviceCaptureThread, line 58 instantiates FreeDCaptureThread, which
\* raises TypeError while the class has an abstract method.  Line 62 catches
\* socket.gaierror only, so each of these ends the call.
create_capture_threads_L26 ==
  /\ factory_pc = "L26"
  /\ LET idx == Len(devices_to_capture) + 1
     IN  IF idx > Len(device_config)
         THEN /\ factory_pc' = "returned"
              /\ UNCHANGED <<assigned_ports, devices_to_capture>>
         ELSE LET device_name == device_config[idx]
                  port == DevicePort(device_name)
                  protocol == DeviceProtocol(device_name)
              IN  /\ devices_to_capture' = Append(devices_to_capture, device_name)
                  /\ IF PortAssigned(port, assigned_ports)
                     THEN /\ factory_pc' = "TypeError"
                          /\ UNCHANGED assigned_ports
                     ELSE IF capture_thread_class(protocol) = None
                     THEN /\ factory_pc' = "ModuleNotFoundError"
                          /\ UNCHANGED assigned_ports
                     ELSE IF AbstractMethods("FreeDCaptureThread") # {}
                     THEN /\ factory_pc' = "TypeError"
                          /\ UNCHANGED assigned_ports
                     ELSE /\ assigned_ports' =
                               Append(assigned_ports,
                                      [port |-> port, device_name |-> device_name,
                                       protocol |-> protocol])
                          /\ factory_pc' = "L26"
  /\ UNCHANGED <<capture_pc, packet, tracking_data, captured_tracking_data, data_to_export,
                 listening_socket, capture_threads, system_time, timecode>>
  /\ UNCHANGED serverVars
  /\ UNCHANGED archiveVars

\* ------------------------------------------------------------------------
\* usd_export.py, and Recording.archive_captured_data given capture data
\* ------------------------------------------------------------------------

\* Sample sequences handed to a UsdArchiver have up to this many samples.
MaxSamples == 2

\* The devices of the mapping given to archive_captured_data.
ArchiveDevices == {"CamA", "CamB"}

\* The take that is archived.
ArchiveKey == <<"SlateA", 1>>

\* Samples as package_frame_data builds them (freed_capture.py:100-143), cut
\* down to the timecode key and one coordinate of each vector.
Samples ==
  { [TimecodeKey |-> 100, XPos |-> 1, Pitch |-> 1],
    [TimecodeKey |-> 100, XPos |-> 2, Pitch |-> 2],
    [TimecodeKey |-> 101, XPos |-> 1, Pitch |-> 1] }

SampleSeqs == UNION { [1..n -> Samples] : n \in 0..MaxSamples }

\* A Set that leaves the value of a time that has one.
SetTimeSample_keep_first(time_samples, value, frame) ==
  [f \in DOMAIN time_samples \cup {frame} |->
     IF f \in DOMAIN time_samples THEN time_samples[f] ELSE value]

\* UsdGeom.XformOp.Set(value, time): the attribute has one value per time, a
\* second Set at a time replaces the value.
SetTimeSample(time_samples, value, frame) ==
  [f \in DOMAIN time_samples \cup {frame} |->
     IF f = frame THEN value ELSE time_samples[f]]

RECURSIVE UsdArchiver_loop(_, _)
\* UsdArchiver.run, lines 62-77: the loop over the samples, on the time
\* samples of the translate and the rotate op.
UsdArchiver_loop(ops, captured_transform_data) ==
  IF captured_transform_data = << >>
  THEN ops
  ELSE LET captureDict == Head(captured_transform_data)
           frame == captureDict.TimecodeKey
       IN  UsdArchiver_loop(
             [translate |-> SetTimeSample(ops.translate, captureDict.XPos, frame),
              rotate |-> SetTimeSample(ops.rotate, captureDict.Pitch, frame)],
             Tail(captured_transform_data))

\* The stage UsdArchiver.run saves, lines 41-79: its two ops start with no
\* time sample (lines 57-58).
UsdArchiver_stage(captured_transform_data) ==
  UsdArchiver_loop([translate |-> << >>, rotate |-> << >>], captured_transform_data)

\* A writer thread has ended, by returning or by raising.
Terminated(thread) == thread \in {"finished", "raised"}

\* stages with one more file saved.
Saved(files, path, contents) ==
  [q \in DOMAIN files \cup {path} |-> IF q = path THEN contents ELSE files[q]]

\* archive_captured_data, lines 104-120: the take is read; with a take one
\* UsdArchiver is built per entry of the mapping, without one nothing is
\* archived (lines 139-141).
archive_captured_data_L106 ==
  /\ archive_pc = "L104"
  /\ IF check_take_exists(catalog, ArchiveKey)
     THEN /\ sub_usd_threads' = [d \in DOMAIN device_capture_dict |-> "unstarted"]
          /\ archive_pc' = "L123"
     ELSE /\ archive_pc' = "L144"
          /\ UNCHANGED sub_usd_threads
  /\ UNCHANGED <<device_capture_dict, master_thread, failing_writers, stages>>
  /\ UNCHANGED serverVars
  /\ UNCHANGED captureVars

\* archive_captured_data, lines 123-125: every UsdArchiver is started.
archive_captured_data_L123 ==
  /\ archive_pc = "L123"
  /\ sub_usd_threads' = [d \in DOMAIN sub_usd_threads |-> "running"]
  /\ archive_pc' = "L127"
  /\ UNCHANGED <<device_capture_dict, master_thread, failing_writers, stages>>
  /\ UNCHANGED serverVars
  /\ UNCHANGED captureVars

\* UsdArchiver.run, lines 40-79, of the writer of device d: the stage is saved
\* at line 79; an exception of the USD library ends the thread before that.
UsdArchiver_run(d) ==
  /\ d \in DOMAIN sub_usd_threads
  /\ sub_usd_threads[d] = "running"
  /\ IF d \in failing_writers
     THEN /\ sub_usd_threads' = [sub_usd_threads EXCEPT ![d] = "raised"]
          /\ UNCHANGED stages
     ELSE /\ sub_usd_threads' = [sub_usd_threads EXCEPT ![d] = "finished"]
          /\ stages' = Saved(stages, DeviceStagePath(ArchiveKey, d),
                             UsdArchiver_stage(device_capture_dict[d]))
  /\ UNCHANGED <<archive_pc, device_capture_dict, master_thread, failing_writers>>
  /\ UNCHANGED serverVars
  /\ UNCHANGED captureVars

\* A master writer that is started while device writers run.
archive_captured_data_L127_no_join ==
  /\ archive_pc = "L127"
  /\ master_thread' = "running"
  /\ archive_pc' = "L138"
  /\ UNCHANGED <<device_capture_dict, sub_usd_threads, failing_writers, stages>>
  /\ UNCHANGED serverVars
  /\ UNCHANGED captureVars

\* An archive that gives up when a device writer has raised.
archive_captured_data_L127_abort ==
  /\ archive_pc = "L127"
  /\ \A d \in DOMAIN sub_usd_threads : Terminated(sub_usd_threads[d])
  /\ IF \E d \in DOMAIN sub_usd_threads : sub_usd_threads[d] = "raised"
     THEN /\ archive_pc' = "L144"
          /\ UNCHANGED master_thread
     ELSE /\ master_thread' = "running"
          /\ archive_pc' = "L138"
  /\ UNCHANGED <<device_capture_dict, sub_usd_threads, failing_writers, stages>>
  /\ UNCHANGED serverVars
  /\ UNCHANGED captureVars

\* archive_captured_data, lines 127-137: every UsdArchiver is joined (join
\* returns when the thread has ended, however it ended), then the master
\* writer is built with the relative path of every UsdArchiver and started.
archive_captured_data_L127 ==
  /\ archive_pc = "L127"
  /\ \A d \in DOMAIN sub_usd_threads : Terminated(sub_usd_threads[d])
  /\ master_thread' = "running"
  /\ archive_pc' = "L138"
  /\ UNCHANGED <<device_capture_dict, sub_usd_threads, failing_writers, stages>>
  /\ UNCHANGED serverVars
  /\ UNCHANGED captureVars

\* USDMasterStageArchiver.run, lines 101-111, of a master writer that was
\* given the paths of the device writers.
USDMasterStageArchiver_run_appending ==
  /\ master_thread = "running"
  /\ IF "master" \in failing_writers
     THEN /\ master_thread' = "raised"
          /\ UNCHANGED stages
     ELSE /\ master_thread' = "finished"
          /\ stages' = Saved(stages, MasterStagePath(ArchiveKey),
                             [subLayerPaths |->
                                { <<"..", "cameras", d, d>> : d \in DOMAIN sub_usd_threads }])
  /\ UNCHANGED <<archive_pc, device_capture_dict, sub_usd_threads, failing_writers>>
  /\ UNCHANGED serverVars
  /\ UNCHANGED captureVars

\* archive_captured_data, line 138: the master writer is joined.
archive_captured_data_L138 ==
  /\ archive_pc = "L138"
  /\ Terminated(master_thread)
  /\ archive_pc' = "L144"
  /\ UNCHANGED <<device_capture_dict, sub_usd_threads, master_thread, failing_writers, stages>>
  /\ UNCHANGED serverVars
  /\ UNCHANGED captureVars

\* update_database_with_archive_path, lines 144-147, run after the archive
\* (Recording.run, line 53): the UPDATE is committed, then update_take raises
\* (see update_database_L147); without a row line 145 raises.
update_database_with_archive_path ==
  /\ archive_pc = "L144"
  /\ catalog' = IF check_take_exists(catalog, ArchiveKey)
                THEN CommitUpdate(catalog, ArchiveKey,
                                  ArchiveTakeUpdate(catalog[ArchiveKey], ArchiveKey))
                ELSE catalog
  /\ archive_pc' = "AttributeError"
  /\ UNCHANGED <<current_recording, stop_recording_event, recordings, recordings_started,
                 device_config, usd_files, request>>
  /\ UNCHANGED captureVars
  /\ UNCHANGED <<device_capture_dict, sub_usd_threads, master_thread, failing_writers, stages>>

\* ------------------------------------------------------------------------
\* Specifications
\* ------------------------------------------------------------------------

RecordingIds == 1..MaxRecordings

RecordingStep ==
  \/ \E i \in RecordingIds : start_capturing_data(i)
  \/ \E i \in RecordingIds : reset_recording_state_L163(i)
  \/ \E i \in RecordingIds : reset_recording_state_L164(i)
  \/ \E i \in RecordingIds : archive_captured_data_L104(i)
  \/ \E i \in RecordingIds, raises \in BOOLEAN : USDMasterStageArchiver_run(i, raises)
  \/ \E i \in RecordingIds : update_database_L144(i)
  \/ \E i \in RecordingIds : update_database_L147(i)

HttpStep ==
  \/ \E key \in Keys, a \in StartArgs : begin_recording_L96(key, a)
  \/ begin_recording_L99
  \/ begin_recording_L105(FALSE)
  \/ \E key \in RequestKeys : end_recording_L138(key)
  \/ \E a \in StopArgs : end_recording_L142(a)
  \/ end_recording_L148
  \/ \E key \in RequestKeys, body \in PutBodies : update_take(key, body)

DirectKeys == { DirectKey(n) : n \in 1..MaxRecordings }

ManagerStep ==
  \/ \E key \in DirectKeys, a \in StartArgs : start_recording_L167(key, a)
  \/ start_recording_L170
  \/ stop_recording_L177
  \/ stop_recording_L179
  \/ stop_recording_L180

Next ==
  \/ HttpStep
  \/ ManagerStep
  \/ RecordingStep

Spec == Init /\ [][Next]_vars

\* The steps of the thread of Recording i.
Recording_run(i) ==
  \/ start_capturing_data(i)
  \/ reset_recording_state_L163(i)
  \/ reset_recording_state_L164(i)
  \/ archive_captured_data_L104(i)
  \/ \E raises \in BOOLEAN : USDMasterStageArchiver_run(i, raises)
  \/ update_database_L144(i)
  \/ update_database_L147(i)

\* Spec with threads that are scheduled: a Recording thread that can take a
\* step takes one in the end.
LiveSpec == Spec /\ \A i \in RecordingIds : WF_vars(Recording_run(i))

\* The handlers with a database that may fail: the INSERT of insert_take may
\* raise sqlite3.OperationalError.
HttpStepDb ==
  \/ \E key \in Keys, a \in StartArgs : begin_recording_L96(key, a)
  \/ begin_recording_L99
  \/ \E operational_error \in BOOLEAN : begin_recording_L105(operational_error)
  \/ begin_recording_L126
  \/ \E key \in RequestKeys : end_recording_L138(key)
  \/ \E a \in StopArgs : end_recording_L142(a)
  \/ end_recording_L148
  \/ \E key \in RequestKeys, body \in PutBodies \cup PutBodiesArchive :
       update_take(key, body)
  \/ get_recording_status_L80

HttpNext ==
  \/ HttpStepDb
  \/ RecordingStep

\* The server as it is deployed: requests and Recording threads, nothing else
\* calls the manager.
HttpSpec == Init /\ [][HttpNext]_vars


\* A FreeDCaptureThread as BaseCaptureThread.__init__ leaves it
\* (base_capture.py:141-157), started, and a call of create_capture_threads
\* on a configuration.
CaptureInit ==
  /\ catalog = << >>
  /\ current_recording = None
  /\ stop_recording_event = FALSE
  /\ recordings = << >>
  /\ recordings_started = 0
  /\ device_config \in ConfigsUpTo(MaxFactoryDevices)
  /\ usd_files = {}
  /\ request = Idle("none", NoKey, "none")
  /\ capture_pc = "L210"
  /\ packet = << >>
  /\ tracking_data = None
  /\ captured_tracking_data = << >>
  /\ data_to_export = None
  /\ factory_pc = "L26"
  /\ assigned_ports = << >>
  /\ devices_to_capture = << >>
  /\ listening_socket = "bound"
  /\ capture_threads = << >>
  /\ system_time = None
  /\ timecode = None
  /\ NoArchive

CaptureNext ==
  \/ Event_set
  \/ capture_run_L210
  \/ \E ready \in BOOLEAN : capture_run_L211(ready)
  \/ \E datagram \in Datagrams : capture_run_L214(datagram)
  \/ capture_run_L214_OSError
  \/ capture_run_L216
  \/ capture_run_L218
  \/ capture_run_L219
  \/ \E shutdown_raises \in BOOLEAN : capture_run_L225(shutdown_raises)
  \/ create_capture_threads_L26

\* The device_capture package on its own: one capture thread and one call of
\* the factory.
CaptureSpec == CaptureInit /\ [][CaptureNext]_vars

\* archive_captured_data called with capture data for some of the devices,
\* for a take that has a row or has none, with writers some of which raise.
ArchiveInit ==
  /\ catalog \in { << >> } \cup
                 { CommitInsert(<< >>, ArchiveKey, TakeCreationRow(a)) : a \in StartArgs }
  /\ current_recording = None
  /\ stop_recording_event = FALSE
  /\ recordings = << >>
  /\ recordings_started = 0
  /\ device_config = << >>
  /\ usd_files = {}
  /\ request = Idle("none", NoKey, "none")
  /\ NoCapture
  /\ archive_pc = "L104"
  /\ device_capture_dict \in UNION { [D -> SampleSeqs] : D \in SUBSET ArchiveDevices }
  /\ sub_usd_threads = << >>
  /\ master_thread = "unstarted"
  /\ failing_writers \in SUBSET (DOMAIN device_capture_dict \cup {"master"})
  /\ stages = << >>

ArchiveNext ==
  \/ archive_captured_data_L106
  \/ archive_captured_data_L123
  \/ \E d \in ArchiveDevices : UsdArchiver_run(d)
  \/ archive_captured_data_L127
  \/ USDMasterStageArchiver_run_appending
  \/ archive_captured_data_L138
  \/ update_database_with_archive_path

\* The archive phase of a recording on its own, given capture data.
ArchiveSpec == ArchiveInit /\ [][ArchiveNext]_vars

\* ------------------------------------------------------------------------
\* Properties
\* ------------------------------------------------------------------------

\* A recording is Capturing while its thread is in start_capturing_data, and
\* Archiving from the return of the callback to the end of run().
Capturing(i) == Running(i, "L44")

Archiving(i) == i \in DOMAIN recordings /\ recordings[i].pc \in {"L104", "L138", "L144", "L147"}

\* The event loop takes a step.
RequestStep == request' # request

\* The manager, the recordings and the catalog are what they were.
NoEffect ==
  UNCHANGED <<catalog, current_recording, stop_recording_event, recordings,
              recordings_started, usd_files>>

\* C1: in every reachable state at most one recording is Capturing.
C1_AtMostOneCapturing ==
  Cardinality({ i \in DOMAIN recordings : Capturing(i) }) <= 1

\* A later recording captures while an earlier one is still archiving.
C1_Witness ==
  \E i, j \in DOMAIN recordings : i # j /\ Capturing(i) /\ Archiving(j)


\* The recording the manager's slot refers to (the slot is not empty).
Current == recordings[TheOne(current_recording)]

\* C2: a start for a take, made while another take occupies the slot, is
\* answered as a conflict and has no effect: the catalog, the slot, the
\* stop-signal and the recordings are what they were, in the handler
\* (server.py:96-102) and in the manager (recording.py:166-170).
C2_StartConflictRejected ==
  [][ /\ ( /\ request.pc = "idle" /\ RequestStep
           /\ request'.op = "begin_recording" /\ current_recording # None )
         => (request'.pc = "L96_fields" /\ NoEffect)
      /\ ( /\ request.op = "begin_recording" /\ request.pc = "L96_fields" /\ RequestStep )
         => /\ NoEffect
            /\ request'.pc = "idle"
            /\ current_recording # None
                 => request' = Idle("begin_recording", request.key, "HTTPException_400")
      /\ ( /\ request.pc = "idle" /\ RequestStep
           /\ request'.op = "start_recording" /\ current_recording # None )
         => (request'.pc = "L167_fields" /\ NoEffect)
      /\ ( /\ request.op = "start_recording" /\ request.pc = "L167_fields" /\ RequestStep )
         => /\ NoEffect
            /\ request'.pc = "idle"
            /\ current_recording # None => request'.result = "ignored"
    ]_vars

\* A start for a second take has been answered 400 while the first is capturing
\* in the slot, and the second take has no row.
C2_Witness ==
  /\ request.op = "begin_recording" /\ request.pc = "idle"
  /\ request.result = "HTTPException_400"
  /\ current_recording # None
  /\ Current.key # request.key
  /\ Capturing(TheOne(current_recording))
  /\ request.key \notin DOMAIN catalog

C4_StopMismatchRejected ==
  [][ /\ ( /\ request.pc = "idle" /\ RequestStep
           /\ request'.op = "end_recording" /\ current_recording = None )
         => /\ NoEffect
            /\ request' = Idle("end_recording", request'.key, "HTTPException_400")
      /\ ( /\ request.pc = "idle" /\ RequestStep
           /\ request'.op = "end_recording" /\ current_recording # None )
         => (request'.pc = "L138_fields" /\ NoEffect)
      /\ ( /\ request.op = "end_recording" /\ request.pc = "L138_fields" /\ RequestStep
           /\ current_recording # None /\ Current.key # request.key )
         => /\ NoEffect
            /\ request' = Idle("end_recording", request.key, "HTTPException_400")
    ]_vars

\* A stop for another key has been answered 400 and the recording in the slot
\* is still capturing, its stop-signal clear.
C4_Witness ==
  /\ request.op = "end_recording" /\ request.pc = "idle"
  /\ request.result = "HTTPException_400"
  /\ current_recording # None
  /\ Current.key # request.key
  /\ Capturing(TheOne(current_recording))
  /\ ~stop_recording_event

\* C5: stop_recording called while the slot is empty changes nothing, and a
\* stop_recording that runs when the stop-signal is already set (an earlier
\* call has set it) leaves the manager as the earlier call left it.
C5_StopIdempotent ==
  [][ /\ ( /\ request.pc = "idle" /\ RequestStep
           /\ request'.op = "stop_recording" /\ current_recording = None )
         => /\ NoEffect
            /\ request' = Idle("stop_recording", NoKey, "ignored")
      /\ ( /\ RequestStep /\ request'.op = "stop_recording" /\ stop_recording_event )
         => NoEffect
    ]_vars

\* stop_recording has returned at line 178 with the slot empty and the
\* stop-signal clear, after a recording had been and gone.
C5_Witness ==
  /\ request = Idle("stop_recording", NoKey, "ignored")
  /\ current_recording = None
  /\ ~stop_recording_event
  /\ recordings_started > 0

\* C6: once a stop for the take in the slot has written its row (the row has a
\* timecode_out_frames), a further stop for that take changes neither the row
\* nor the recording's progress.
C6_SecondStopNoOp ==
  [][ ( /\ request.op = "end_recording" /\ request.pc = "L148" /\ RequestStep
        /\ request.key \in DOMAIN catalog
        /\ catalog[request.key]["timecode_out_frames"] # None )
      => NoEffect
    ]_vars

\* The master stage of a take recorded with the one configured device.
MasterStageOf(key) ==
  [path |-> <<archive_path(key), "master", "MasterSequence.usda">>,
   subLayerPaths |-> << <<"..", "cameras", DeviceNames[1], DeviceNames[1]>> >>]

\* C7: with one device configured, when the thread of a recording whose stop
\* has been written to its row has ended, the row is valid, its
\* usd_archive_location is the archive path, the master stage lists the
\* device's sub-stage and the manager is Idle.
C7_HappyPathResult ==
  \A i \in DOMAIN recordings :
    LET key == recordings[i].key
    IN  ( /\ device_config = <<DeviceNames[1]>>
          /\ recordings[i].pc \in {"NameError", "AttributeError"}
          /\ key \in DOMAIN catalog
          /\ catalog[key]["timecode_out_frames"] # None )
        => /\ catalog[key]["valid"] = Some(TRUE)
           /\ catalog[key]["usd_archive_location"] = Some(archive_path(key))
           /\ MasterStageOf(key) \in usd_files
           /\ current_recording = None

\* C8: the slot refers to a recording for as long as it captures, and no
\* longer when it archives: the callback has emptied the slot before
\* archive_captured_data starts, so before any USD writer is started.
C8_SlotReleasedBeforeArchive ==
  \A i \in DOMAIN recordings :
    /\ Capturing(i) => current_recording = Some(i)
    /\ Archiving(i) => current_recording # Some(i)
    /\ recordings[i].master_archive_thread # "unstarted"
         => (Archiving(i) /\ current_recording # Some(i))

\* The master-stage writer of a recording runs, and the slot does not refer to
\* that recording.
C8_Witness ==
  \E i \in DOMAIN recordings :
    /\ Running(i, "L138")
    /\ recordings[i].master_archive_thread = "running"
    /\ current_recording # Some(i)

\* C9: a step of a recording that is Archiving leaves the slot and the
\* stop-signal alone, whoever holds them.
C9_ArchivingLeavesSlotAlone ==
  [][ \A i \in DOMAIN recordings :
        ( /\ Archiving(i)
          /\ (i \notin DOMAIN recordings' \/ recordings'[i] # recordings[i]) )
        => UNCHANGED <<current_recording, stop_recording_event>>
    ]_vars

\* Recording A is writing its archive path to the catalog while a different
\* recording B captures in the slot.
C9_Witness ==
  \E a, b \in DOMAIN recordings :
    /\ a # b
    /\ recordings[a].key # recordings[b].key
    /\ Running(a, "L147")
    /\ Capturing(b) /\ current_recording = Some(b)

\* C10: every row with valid true has its timecode_out_frames and its
\* usd_archive_location set.
C10_ValidImpliesComplete ==
  \A key \in DOMAIN catalog :
    catalog[key]["valid"] = Some(TRUE)
      => /\ catalog[key]["timecode_out_frames"] # None
         /\ catalog[key]["usd_archive_location"] # None

\* C11: in every state where a row's usd_archive_location is set, the archive
\* of that take has been written: its master stage is saved and no writer of a
\* recording of that take is still running.
C11_UsdSetAfterArchive ==
  \A key \in DOMAIN catalog :
    catalog[key]["usd_archive_location"] # None
      => /\ \E f \in usd_files : f.path = MasterStagePath(key)
         /\ \A i \in DOMAIN recordings :
              recordings[i].key = key => recordings[i].master_archive_thread # "running"

\* The archive of recording i has failed: its master writer raised, or no
\* writer was started because the take had no row when it was read.
ArchiveFailed(i) ==
  /\ i \in DOMAIN recordings
  /\ recordings[i].pc \in {"L144", "L147"}
  /\ recordings[i].master_archive_thread \in {"raised", "unstarted"}

\* C12: a recording whose archive has failed leaves the catalog as it is: it
\* sets no usd_archive_location.
C12_FailedArchiveLeavesUsdUnset ==
  [][ \A i \in DOMAIN recordings :
        ( /\ ArchiveFailed(i)
          /\ (i \notin DOMAIN recordings' \/ recordings'[i] # recordings[i]) )
        => \A key \in DOMAIN catalog :
             catalog'[key]["usd_archive_location"] = catalog[key]["usd_archive_location"]
    ]_vars

\* C13: a row that appears in the catalog has valid false and no
\* usd_archive_location, and valid turns true in no step but the update of a
\* stop request that was accepted for the row's own key.
C13_ValidOnlyByAcceptedStop ==
  [][ \A key \in DOMAIN catalog' :
        /\ key \notin DOMAIN catalog
             => /\ catalog'[key]["valid"] = Some(FALSE)
                /\ catalog'[key]["usd_archive_location"] = None
        /\ ( /\ key \in DOMAIN catalog
             /\ catalog[key]["valid"] # Some(TRUE)
             /\ catalog'[key]["valid"] = Some(TRUE) )
             => /\ request.op = "end_recording" /\ request.pc = "L148"
                /\ request.key = key
                /\ request'.pc = "idle"
    ]_vars

\* C14: no two recordings are of the same (slate, take_number), be they
\* capturing, archiving or ended in the slot.
C14_OneRecordingPerKey ==
  \A i, j \in DOMAIN recordings :
    i # j => recordings[i].key # recordings[j].key

\* C15: the step of a start request whose INSERT has failed creates no
\* recording and leaves the slot as it is.
C15_FailedInsertAbortsStart ==
  [][ ( /\ request.op = "begin_recording" /\ request.pc = "L126"
        /\ request' # request )
      => UNCHANGED <<recordings, recordings_started, current_recording>>
    ]_vars

\* Positions of the configured devices that follow an earlier device with the
\* same port.
PortSharers ==
  { n \in 1..Len(device_config) :
      \E k \in 1..(n - 1) : DevicePort(device_config[k]) = DevicePort(device_config[n]) }

\* C17: when create_capture_threads is done with a configuration in which a
\* device shares the port of an earlier one, it has returned: every port that
\* is configured with a known protocol has exactly one thread, which serves
\* the first device configured on that port, and no device that shares a port
\* is served.
C17_PortConflictKeepsFirst ==
  (factory_pc # "L26" /\ PortSharers # {})
    => /\ factory_pc = "returned"
       /\ \A n \in 1..Len(device_config) :
            LET served == { t \in 1..Len(assigned_ports) :
                              assigned_ports[t].device_name = device_config[n] }
            IN  IF n \in PortSharers
                   \/ capture_thread_class(DeviceProtocol(device_config[n])) = None
                THEN served = {}
                ELSE Cardinality(served) = 1

\* A configured device whose capture thread cannot be built: there is no
\* module for its protocol.
Unbuildable(device_name) == capture_thread_class(DeviceProtocol(device_name)) = None

\* C18: with a device configured whose capture thread cannot be built, the
\* thread of a recording is not ended by start_capturing_data: no recording
\* stands at an exception raised there.
C18_BuildFailureSkipsDevice ==
  \A i \in DOMAIN recordings :
    (\E n \in 1..Len(device_config) : Unbuildable(device_config[n]))
      => recordings[i].pc # "NameError"

\* The checksum rule in closed form: 0x40 minus the sum of the bytes is 0
\* modulo 256.
RECURSIVE SumBytes(_)
SumBytes(bytes) == IF bytes = << >> THEN 0 ELSE Head(bytes) + SumBytes(Tail(bytes))

\* A datagram of the frame length with the transform header.
IsTransformFrame(bytes) == Len(bytes) = FREED_PACKET_SIZE /\ bytes[1] = FREED_HEADER

ChecksumRule(bytes) == (64 - SumBytes(bytes)) % 256 = 0

\* C19: a step of the capture thread that judges a received frame of 29 bytes
\* with header 0xD1 and a wrong checksum leaves the sample buffer and the
\* published data as they are and takes the thread back to the test of its
\* receive loop.
C19_CorruptFrameDropped ==
  [][ ( /\ capture_pc = "L218"
        /\ IsTransformFrame(packet) /\ ~ChecksumRule(packet)
        /\ capture_pc' # capture_pc )
      => /\ captured_tracking_data' = captured_tracking_data
         /\ data_to_export' = data_to_export
         /\ capture_pc' = "L210"
    ]_vars

\* A corrupt frame has been parsed and judged, and the thread is back at the
\* test of its loop with nothing cached.
C19_Witness ==
  /\ capture_pc = "L210"
  /\ IsTransformFrame(packet) /\ ~ChecksumRule(packet)
  /\ tracking_data = Some(FreeDPacket(packet))
  /\ captured_tracking_data = << >>

\* C20: for the frame of 29 bytes with header 0xD1 that the thread holds,
\* checksum_valid is true exactly when 0x40 minus the sum of the 29 bytes is 0
\* modulo 256; and a frame the thread has accepted satisfies that rule.
C20_ChecksumRule ==
  /\ IsTransformFrame(packet) => (checksum_valid(packet) <=> ChecksumRule(packet))
  /\ capture_pc = "L219" => ChecksumRule(packet)

\* A frame whose bytes sum past 256 has been judged valid: pan 255 and
\* checksum 111 with header 0xD1 and camera id 1 sum to 576 = 64 + 2 * 256.
C20_Witness ==
  /\ capture_pc = "L219"
  /\ IsTransformFrame(packet)
  /\ SumBytes(packet) > 256
  /\ checksum_valid(packet)

\* C24: a PUT /take/update for a key that has no row leaves a row for that key
\* in the catalog, carrying the fields of the body, and answers with the take.
C24_PutCreatesTake ==
  [][ \A key \in RequestKeys :
        ( /\ request.pc = "idle"
          /\ request' = Idle("update_take", key, request'.result)
          /\ key \notin DOMAIN catalog )
        => /\ key \in DOMAIN catalog'
           /\ request'.result = "Take"
    ]_vars

\* C25: the status query answers "started" with the key of the recording in
\* the slot when the slot is occupied and "stopped" when it is empty, and the
\* manager's status has four fields.
C25_StatusQueryAnswers ==
  /\ Len(get_recording_status(current_recording)) = 4
  /\ (request.op = "get_recording_status" /\ request.pc = "idle")
       => request.result \in {"started", "stopped"}

\* C26: every row with timecode_in_frames and timecode_out_frames set has
\* timecode_out_frames >= timecode_in_frames.
C26_TimecodeOutNotBeforeIn ==
  \A key \in DOMAIN catalog :
    (catalog[key]["timecode_in_frames"] # None /\ catalog[key]["timecode_out_frames"] # None)
      => TheOne(catalog[key]["timecode_out_frames"]) >= TheOne(catalog[key]["timecode_in_frames"])

\* C27: a recording leaves Capturing, by returning from start_capturing_data
\* or by releasing the slot, only while the stop-signal is set.
C27_CapturingEndsAfterStop ==
  [][ \A i \in DOMAIN recordings :
        ( /\ recordings[i].pc \in {"L44", "L163", "L164"}
          /\ i \in DOMAIN recordings'
          /\ recordings'[i].pc \in {"L163", "L164", "L104"}
          /\ recordings'[i].pc # recordings[i].pc )
        => stop_recording_event
    ]_vars

\* C30: a capture thread that leaves the recv of line 214 without a datagram
\* is back at the test of its receive loop, not on its way out.
C30_ReadErrorKeepsCapturing ==
  [][ ( /\ capture_pc = "L214"
        /\ capture_pc' \notin {"L214", "L216"} )
      => capture_pc' = "L210"
    ]_vars

\* C22: when the stop-signal is set and the thread of a recording whose take
\* has a row has ended, a stage has been written for every configured device.
C22_EmptyCaptureStillArchived ==
  \A i \in DOMAIN recordings :
    ( /\ stop_recording_event
      /\ recordings[i].pc \in {"NameError", "AttributeError"}
      /\ check_take_exists(catalog, recordings[i].key) )
      => \A n \in 1..Len(device_config) :
           \E f \in usd_files : f.path = DeviceStagePath(recordings[i].key, device_config[n])

\* C23: once the stop-signal is set while a recording is in the slot, the
\* slot is empty at some later time.
C23_StopLeadsToIdle ==
  (stop_recording_event /\ current_recording # None) ~> (current_recording = None)

\* The devices whose stage has been saved.
SavedDevices ==
  { d \in DOMAIN device_capture_dict : DeviceStagePath(ArchiveKey, d) \in DOMAIN stages }

\* The timecode keys of a sample sequence.
TimecodeKeys(S) == { S[n].TimecodeKey : n \in 1..Len(S) }

\* The last sample of S with the given timecode key.
LastAt(S, frame) ==
  S[CHOOSE n \in 1..Len(S) :
      /\ S[n].TimecodeKey = frame
      /\ \A k \in (n + 1)..Len(S) : S[k].TimecodeKey # frame]

\* C21 as stated: the stage saved for a device has as many time samples on the
\* translate op and on the rotate op as the device has samples, and their keys
\* are the timecode keys of the samples.
C21_OneTimeSamplePerSample ==
  \A d \in SavedDevices :
    LET S == device_capture_dict[d]
        stage == stages[DeviceStagePath(ArchiveKey, d)]
    IN  /\ Cardinality(DOMAIN stage.translate) = Len(S)
        /\ Cardinality(DOMAIN stage.rotate) = Len(S)
        /\ DOMAIN stage.translate = TimecodeKeys(S)
        /\ DOMAIN stage.rotate = TimecodeKeys(S)

\* C21, amended: the stage saved for a device has one time sample on the
\* translate op and one on the rotate op for each timecode key that occurs in
\* the device's samples, with the values of the last sample of that key; so
\* it has as many time samples as there are distinct keys.
C21_OneTimeSamplePerKey ==
  \A d \in SavedDevices :
    LET S == device_capture_dict[d]
        stage == stages[DeviceStagePath(ArchiveKey, d)]
    IN  /\ DOMAIN stage.translate = TimecodeKeys(S)
        /\ DOMAIN stage.rotate = TimecodeKeys(S)
        /\ \A frame \in TimecodeKeys(S) :
             /\ stage.translate[frame] = LastAt(S, frame).XPos
             /\ stage.rotate[frame] = LastAt(S, frame).Pitch

\* A stage has been saved from two samples of one timecode key that differ:
\* it has one time sample, with the values of the second.
C21_Witness ==
  \E d \in SavedDevices :
    LET S == device_capture_dict[d]
    IN  /\ Len(S) = 2
        /\ S[1].TimecodeKey = S[2].TimecodeKey
        /\ S[1].XPos # S[2].XPos
        /\ Cardinality(DOMAIN stages[DeviceStagePath(ArchiveKey, d)].translate) = 1

\* C28: the master writer has been started only when every device writer of
\* the archive has ended, and the row has its usd_archive_location only when
\* the master writer has ended.
C28_MasterAfterDevicesUpdateAfterMaster ==
  /\ master_thread # "unstarted"
       => \A d \in DOMAIN device_capture_dict :
            d \in DOMAIN sub_usd_threads /\ Terminated(sub_usd_threads[d])
  /\ ( /\ check_take_exists(catalog, ArchiveKey)
       /\ catalog[ArchiveKey]["usd_archive_location"] # None )
       => Terminated(master_thread)

\* Two device writers have saved their stages, the master writer has saved
\* the master stage and the row has its archive location.
C28_Witness ==
  /\ DOMAIN sub_usd_threads = ArchiveDevices
  /\ \A d \in ArchiveDevices : sub_usd_threads[d] = "finished"
  /\ master_thread = "finished"
  /\ check_take_exists(catalog, ArchiveKey)
  /\ catalog[ArchiveKey]["usd_archive_location"] = Some(archive_path(ArchiveKey))

\* C29: when the archive of a take that has a row is over, every device
\* writer that does not itself raise has saved its stage, whichever other
\* writers raised, and the master writer has run: it has saved the master
\* stage, listing every device, unless it raised itself.
C29_FailedWriterStopsNoOther ==
  (archive_pc \in {"L144", "AttributeError"} /\ check_take_exists(catalog, ArchiveKey))
    => /\ \A d \in DOMAIN device_capture_dict :
            /\ d \in DOMAIN sub_usd_threads
            /\ sub_usd_threads[d] = IF d \in failing_writers THEN "raised" ELSE "finished"
            /\ d \notin failing_writers => d \in SavedDevices
       /\ master_thread = IF "master" \in failing_writers THEN "raised" ELSE "finished"
       /\ "master" \notin failing_writers
            => /\ MasterStagePath(ArchiveKey) \in DOMAIN stages
               /\ stages[MasterStagePath(ArchiveKey)].subLayerPaths =
                    { <<"..", "cameras", d, d>> : d \in DOMAIN device_capture_dict }

\* The writer of one device has raised; the writer of the other has saved its
\* stage and the master writer has saved the master stage.
C29_Witness ==
  /\ archive_pc = "L144"
  /\ \E d \in ArchiveDevices, e \in ArchiveDevices :
       /\ d # e
       /\ DOMAIN sub_usd_threads = ArchiveDevices
       /\ sub_usd_threads[d] = "raised"
       /\ sub_usd_threads[e] = "finished" /\ e \in SavedDevices
  /\ master_thread = "finished"
  /\ MasterStagePath(ArchiveKey) \in DOMAIN stages

\* The capture thread has terminated.
CaptureTerminated == capture_pc \in {"ended", "OSError"}

\* C31: a capture thread that has terminated has published data_to_export,
\* equal to what it had buffered, and has closed its socket.
C31_ExitPublishesAndCloses ==
  CaptureTerminated
    => /\ data_to_export = Some(captured_tracking_data)
       /\ listening_socket = "closed"

\* C32: the step of a capture thread that caches a valid packet adds one
\* sample to its buffer and takes the thread back to the test of its loop.
C32_ValidPacketAppendsOneSample ==
  [][ ( /\ capture_pc = "L219"
        /\ capture_pc' # capture_pc )
      => /\ captured_tracking_data' # captured_tracking_data
         /\ capture_pc' = "L210"
    ]_vars

\* C34: a step of the capture thread that judges a datagram with header 0xD1
\* and a length other than 29 leaves the buffer as it is and takes the thread
\* back to the test of its receive loop.
C34_WrongLengthDropped ==
  [][ ( /\ capture_pc = "L218"
        /\ Len(packet) >= 1 /\ packet[1] = FREED_HEADER
        /\ Len(packet) # FREED_PACKET_SIZE
        /\ capture_pc' # capture_pc )
      => /\ captured_tracking_data' = captured_tracking_data
         /\ capture_pc' = "L210"
    ]_vars

\* C35: a start request whose INSERT was committed goes on to start the
\* recording, and a stop request whose UPDATE was committed goes on to set the
\* stop-signal: neither ends with the exception of the workbook mirror.
C35_MirrorFailureDoesNotFailRequest ==
  [][ ( /\ request.pc \in {"L105", "L148"}
        /\ request' # request
        /\ catalog' # catalog )
      => request'.result # "AttributeError"
    ]_vars

\* C37: whenever the slot is empty the stop-signal is clear.
C37_IdleImpliesSignalClear ==
  current_recording = None => ~stop_recording_event

\* C38: a recording whose thread has died in its capture phase does not keep
\* the slot for ever.
C38_DeadRecordingReleasesSlot ==
  \A i \in RecordingIds :
    (current_recording = Some(i) /\ Running(i, "NameError"))
      ~> (current_recording # Some(i))

\* C39: when a start request is over, the take has a row exactly if the
\* request started a recording for it (requests refused as conflicts, which
\* create nothing, aside).
C39_StartAllOrNothing ==
  ( /\ request.op = "begin_recording" /\ request.pc = "idle"
    /\ request.result # "HTTPException_400" )
    => (check_take_exists(catalog, request.key) <=> request.result = "started")

\* C40: when the writers of a recording are constructed, the row of its take
\* has the timecode_out_frames of a stop.
C40_StopUpdatePrecedesArchive ==
  \A i \in DOMAIN recordings :
    (recordings[i].master_archive_thread # "unstarted"
       /\ check_take_exists(catalog, recordings[i].key))
      => catalog[recordings[i].key]["timecode_out_frames"] # None

\* ------------------------------------------------------------------------
\* database_utils.py: get_system_timecode_as_frames
\* ------------------------------------------------------------------------

\* Frame rates of a take.
FrameRates == {24, 30}

\* What datetime.now() may return: the fields the function reads.
SystemTimes ==
  [hour : {0, 12, 23}, minute : {0, 59}, second : {0, 59},
   microsecond : {0, 1, 499999, 500000, 999999}]

\* Lines 40-41: the seconds handed to Timecode.
system_time_seconds(t) ==
  (t.hour * 60 + t.minute) * 60 + t.second + t.microsecond

\* Timecode(frame_rate, start_seconds=...).frames of the timecode library: the
\* frames that make up that many seconds.
Timecode(frame_rate, start_seconds) ==
  [frame_rate |-> frame_rate, frames |-> start_seconds * frame_rate]

\* get_system_timecode_as_frames, lines 38-44, for the instant t of the clock.
get_system_timecode_as_frames(frame_rate, t) ==
  Timecode(frame_rate, system_time_seconds(t)).frames

\* A call of get_system_timecode_as_frames: the clock is read at line 38 and
\* the Timecode is built at line 43.
get_system_timecode_as_frames_L38(frame_rate, t) ==
  /\ system_time' = Some(t)
  /\ timecode' = Some(Timecode(frame_rate, system_time_seconds(t)))
  /\ UNCHANGED <<capture_pc, packet, tracking_data, captured_tracking_data,
                 data_to_export, factory_pc, assigned_ports, devices_to_capture,
                 listening_socket, capture_threads>>
  /\ UNCHANGED serverVars
  /\ UNCHANGED archiveVars

ClockInit ==
  /\ catalog = << >>
  /\ current_recording = None
  /\ stop_recording_event = FALSE
  /\ recordings = << >>
  /\ recordings_started = 0
  /\ device_config = << >>
  /\ usd_files = {}
  /\ request = Idle("none", NoKey, "none")
  /\ NoCapture
  /\ NoArchive

ClockNext ==
  \E frame_rate \in FrameRates : \E t \in SystemTimes :
    get_system_timecode_as_frames_L38(frame_rate, t)

\* Calls of get_system_timecode_as_frames at the instants of SystemTimes.
ClockSpec == ClockInit /\ [][ClockNext]_vars

\* Two instants of the same second of the day.
SameSecond(t1, t2) ==
  /\ t1.hour = t2.hour
  /\ t1.minute = t2.minute
  /\ t1.second = t2.second

\* The frames of h*3600 + m*60 + s + microsecond/1e6 seconds, rounded down.
FramesOfSecondsOfDay(frame_rate, t) ==
  ((t.hour * 60 + t.minute) * 60 + t.second) * frame_rate
    + (t.microsecond * frame_rate) \div 1000000

\* C36: the frames returned are those of the seconds of the day, microseconds
\* counted as millionths of a second, and the results for two instants of the
\* same second differ by fewer than frame_rate frames.
C36_FramesOfSecondsOfDay ==
  \A tc \in timecode : \A t \in system_time :
    /\ tc.frames = FramesOfSecondsOfDay(tc.frame_rate, t)
    /\ \A t2 \in SystemTimes :
         SameSecond(t, t2)
           => /\ get_system_timecode_as_frames(tc.frame_rate, t2) - tc.frames < tc.frame_rate
              /\ tc.frames - get_system_timecode_as_frames(tc.frame_rate, t2) < tc.frame_rate

\* ------------------------------------------------------------------------
\* recording.py: start_capturing_data, the consolidation of lines 93-100
\* ------------------------------------------------------------------------

\* Names of the devices of the capture threads.
ThreadDevices == {"CamA", "CamB", "AB"}

\* The characters of a device name, as iterating the str yields them.
Characters(device_name) ==
  CASE device_name = "CamA" -> <<"C", "a", "m", "A">>
    [] device_name = "CamB" -> <<"C", "a", "m", "B">>
    [] device_name = "AB" -> <<"A", "B">>

\* What a capture thread may publish: nothing, or the samples it buffered
\* under its device name (base_capture.py:198-199 and 225).
PublishedMappings ==
  { << >> } \cup
  { [x \in {d} |-> S] : d \in ThreadDevices, S \in SampleSeqs \ { << >> } }

\* The joined threads, each with a device name of its own (recording.py:62-64).
JoinedThreads ==
  { threads \in UNION { [1..n -> PublishedMappings] : n \in 0..MaxFactoryDevices } :
      \A m, n \in DOMAIN threads :
        m # n => DOMAIN threads[m] \cap DOMAIN threads[n] = {} }

RECURSIVE consolidate(_, _, _)
\* Lines 94-98: for each thread, in order, the loop over thread.data_to_export.
\* Iterating the dict yields its keys; a key is unpacked into device_name and
\* values, which raises ValueError unless the key has exactly two characters.
consolidate(threads, n, device_capture_data) ==
  IF n > Len(threads)
  THEN [raised |-> FALSE, device_capture_data |-> device_capture_data]
  ELSE IF \E k \in DOMAIN threads[n] : Len(Characters(k)) # 2
       THEN [raised |-> TRUE, device_capture_data |-> device_capture_data]
       ELSE consolidate(threads, n + 1,
              [x \in DOMAIN device_capture_data
                       \cup { Characters(k)[1] : k \in DOMAIN threads[n] } |->
                 IF \E k \in DOMAIN threads[n] : Characters(k)[1] = x
                 THEN Characters(CHOOSE k \in DOMAIN threads[n] : Characters(k)[1] = x)[2]
                 ELSE device_capture_data[x]])

\* start_capturing_data, lines 93-100, once the threads have ended: the joins
\* return, the mappings are consolidated and returned to run(), which hands
\* them to archive_captured_data (line 104); an exception ends run().
start_capturing_data_L94 ==
  /\ archive_pc = "L94"
  /\ LET result == consolidate(capture_threads, 1, << >>)
     IN IF result.raised
        THEN /\ archive_pc' = "ValueError"
             /\ UNCHANGED device_capture_dict
        ELSE /\ archive_pc' = "L104"
             /\ device_capture_dict' = result.device_capture_data
  /\ UNCHANGED <<sub_usd_threads, master_thread, failing_writers, stages>>
  /\ UNCHANGED serverVars
  /\ UNCHANGED captureVars

ConsolidateInit ==
  /\ catalog = << >>
  /\ current_recording = None
  /\ stop_recording_event = FALSE
  /\ recordings = << >>
  /\ recordings_started = 0
  /\ device_config = << >>
  /\ usd_files = {}
  /\ request = Idle("none", NoKey, "none")
  /\ capture_pc = "none"
  /\ packet = << >>
  /\ tracking_data = None
  /\ captured_tracking_data = << >>
  /\ data_to_export = None
  /\ factory_pc = "none"
  /\ assigned_ports = << >>
  /\ devices_to_capture = << >>
  /\ listening_socket = "none"
  /\ capture_threads \in JoinedThreads
  /\ system_time = None
  /\ timecode = None
  /\ archive_pc = "L94"
  /\ device_capture_dict = << >>
  /\ sub_usd_threads = << >>
  /\ master_thread = "unstarted"
  /\ failing_writers = {}
  /\ stages = << >>

ConsolidateNext == start_capturing_data_L94

\* The end of start_capturing_data, given what the capture threads published.
ConsolidateSpec == ConsolidateInit /\ [][ConsolidateNext]_vars

\* The devices the joined threads published samples for.
PublishedDevices == UNION { DOMAIN capture_threads[n] : n \in DOMAIN capture_threads }

\* The samples published for device d.
PublishedSamples(d) ==
  capture_threads[CHOOSE n \in DOMAIN capture_threads : d \in DOMAIN capture_threads[n]][d]

\* C33: once the capture threads are joined, start_capturing_data returns a
\* mapping that holds, for every device a thread published, exactly the
\* samples published for it.
C33_ConsolidatedIsPublished ==
  archive_pc # "L94"
    => /\ archive_pc = "L104"
       /\ DOMAIN device_capture_dict = PublishedDevices
       /\ \A d \in PublishedDevices : device_capture_dict[d] = PublishedSamples(d)

====
